---- MODULE Spec2Model ----
(***************************************************************************)
(* Model of the ApostropheCMS chatbot server: llm_query.js (the duplicate  *)
(* guard, the confidence gate, the conversational chain and the session    *)
(* history store), db_singleton.js (the ChromaDB singleton, its bounded    *)
(* initialisation, the embedding cache and fixDocumentMetadata) and app.js *)
(* (start-up, the socket.io handlers and the express routes).              *)
(*                                                                         *)
(* Spec is the server: start-up and the socket.io handlers.  What the      *)
(* handlers do not call is run on its own: SpecCos (cosineSimilarity),     *)
(* SpecFix (fixDocumentMetadata), SpecHttp (the express routes, after the  *)
(* same start-up), SpecCache (the embedding cache) and SpecInstance        *)
(* (ChromaDB.getInstance called by several callers).                       *)
(*                                                                         *)
(* The LangChain objects are modelled as the code reads them: a history    *)
(* is the live array of its messages, a saved question has role "human",   *)
(* the history-aware retriever asks the model for a rewrite only when the  *)
(* history is not empty, documentPrompt fails on a document that has no    *)
(* url, and the chain saves question and answer only when it succeeded.    *)
(* An awaited call (embedding, retrieval, model) may resolve or reject.    *)
(***************************************************************************)
EXTENDS Integers, Sequences, FiniteSets, TLC

(***************************************************************************)
(* Bounds of the model.                                                    *)
(***************************************************************************)
\* longest vector handed to cosineSimilarity in SpecCos
MaxDim == 2
\* largest component of such a vector (components range over -1..MaxComp)
MaxComp == 1

(***************************************************************************)
(* Numbers.  A JavaScript number produced by cosineSimilarity is a real    *)
(* dotProduct / (sqrt(normA) * sqrt(normB)); it is kept exactly, as its    *)
(* sign and its square in lowest terms: value = sgn * sqrt(num / den).     *)
(***************************************************************************)
RECURSIVE GCD(_, _)
GCD(m, n) == IF n = 0 THEN m ELSE GCD(n, m % n)

Sign(x) == IF x > 0 THEN 1 ELSE IF x < 0 THEN -1 ELSE 0

\* the number 0, as line 39 returns it
Zero == [sgn |-> 0, num |-> 0, den |-> 1]

\* dotProduct / (Math.sqrt(normA) * Math.sqrt(normB)), normA > 0 and normB > 0
Quotient(dotProduct, normA, normB) ==
  LET n == dotProduct * dotProduct
      d == normA * normB
      g == GCD(d, n)
  IN  [sgn |-> Sign(dotProduct), num |-> n \div g, den |-> d \div g]

\* value >= p / q for a threshold p / q > 0
AtLeast(value, p, q) ==
  /\ value.sgn > 0
  /\ value.num * q * q >= p * p * value.den

\* value < p / q
Below(value, p, q) == ~AtLeast(value, p, q)

\* value > p / q for a threshold p / q > 0
Above(value, p, q) ==
  /\ value.sgn > 0
  /\ value.num * q * q > p * p * value.den

(***************************************************************************)
(* cosineSimilarity (llm_query.js).  The loop of lines 32-36 runs over the *)
(* indices of vectorA and accumulates the three sums.                      *)
(***************************************************************************)
RECURSIVE CosineLoop(_, _, _)
CosineLoop(vectorA, vectorB, i) ==
  IF i = 0 THEN [dotProduct |-> 0, normA |-> 0, normB |-> 0]
  ELSE LET acc == CosineLoop(vectorA, vectorB, i - 1)
       IN  [dotProduct |-> acc.dotProduct + vectorA[i] * vectorB[i],
            normA      |-> acc.normA + vectorA[i] * vectorA[i],
            normB      |-> acc.normB + vectorB[i] * vectorB[i]]

\* the outcome of a call: a thrown Error or a returned number
Thrown(what) == [threw |-> TRUE, error |-> what, value |-> Zero]
Returned(v)  == [threw |-> FALSE, error |-> "none", value |-> v]

\* faulty variant: the dimension check only rejects a longer vectorA
cosineSimilarityLenSlip(vectorA, vectorB) ==
  IF Len(vectorA) > Len(vectorB)
  THEN Thrown("Vectors must have the same dimensions")
  ELSE LET acc == CosineLoop(vectorA, vectorB, Len(vectorA))
       IN  IF acc.normA = 0 \/ acc.normB = 0
           THEN Returned(Zero)
           ELSE Returned(Quotient(acc.dotProduct, acc.normA, acc.normB))

\* faulty variant: the denominator uses normA twice
cosineSimilarityNormSlip(vectorA, vectorB) ==
  IF Len(vectorA) # Len(vectorB)
  THEN Thrown("Vectors must have the same dimensions")
  ELSE LET acc == CosineLoop(vectorA, vectorB, Len(vectorA))
       IN  IF acc.normA = 0 \/ acc.normB = 0
           THEN Returned(Zero)
           ELSE Returned(Quotient(acc.dotProduct, acc.normA, acc.normA))

cosineSimilarity(vectorA, vectorB) ==
  IF Len(vectorA) # Len(vectorB)
  THEN Thrown("Vectors must have the same dimensions")
  ELSE LET acc == CosineLoop(vectorA, vectorB, Len(vectorA))
       IN  IF acc.normA = 0 \/ acc.normB = 0
           THEN Returned(Zero)
           ELSE Returned(Quotient(acc.dotProduct, acc.normA, acc.normB))

\* Math.max() of no arguments: -Infinity, below every threshold
NegInfinity == [sgn |-> -1, num |-> 1, den |-> 0]

\* v <= w for two numbers
NumLE(v, w) ==
  IF v = NegInfinity THEN TRUE
  ELSE IF w = NegInfinity THEN FALSE
  ELSE IF v.sgn # w.sgn THEN v.sgn < w.sgn
  ELSE IF v.sgn = 0 THEN TRUE
  ELSE IF v.sgn > 0 THEN v.num * w.den <= w.num * v.den
  ELSE w.num * v.den <= v.num * w.den

\* Math.max(...scores)
RECURSIVE MathMax(_)
MathMax(scores) ==
  IF scores = <<>> THEN NegInfinity
  ELSE LET rest == MathMax(Tail(scores))
       IN  IF NumLE(rest, Head(scores)) THEN Head(scores) ELSE rest

(***************************************************************************)
(* The texts of the model: three questions and four knowledge-base         *)
(* documents, with the vectors the embedding model gives them.             *)
(***************************************************************************)
Questions == {"How do I add a widget?", "How can I add a widget?",
              "How do I deploy?"}

NoUrl == ""

WidgetDoc  == [pageContent |-> "widget guide",
               url |-> "https://docs.apostrophecms.org/widgets"]
OtherDoc   == [pageContent |-> "release notes",
               url |-> "https://docs.apostrophecms.org/releases"]
BareDoc    == [pageContent |-> "module overview", url |-> NoUrl]
DeployDoc  == [pageContent |-> "deployment guide",
               url |-> "https://docs.apostrophecms.org/deploy"]

\* what retriever.invoke can resolve to: the vector store holds any of these
RetrieverResults ==
  {<<>>, <<OtherDoc>>, <<WidgetDoc, DeployDoc>>, <<BareDoc>>}

\* embeddings.embedQuery(text) when the embedding call succeeds
embedQuery(text) ==
  CASE text = "How do I add a widget?"  -> <<1, 0, 0, 0>>
    [] text = "How can I add a widget?" -> <<2, 1, 0, 0>>
    [] text = "How do I deploy?"        -> <<0, 0, 1, 0>>
    [] text = "widget guide"            -> <<7, 5, 5, 1>>
    [] text = "release notes"           -> <<0, 0, 0, 1>>
    [] text = "module overview"         -> <<1, 0, 1, 0>>
    [] text = "deployment guide"        -> <<0, 1, 3, 0>>
    [] OTHER                            -> <<0, 0, 0, 0>>

\* thresholds, as fractions of ThresholdScale
ThresholdScale == 100
DuplicateThreshold == 85
confidenceThreshold == 70

\* the answer the language model composes for a question
ModelAnswer(question) ==
  CASE question = "How do I add a widget?"  -> "answer: add a widget"
    [] question = "How can I add a widget?" -> "answer: you can add a widget"
    [] OTHER                                -> "answer: deploy"

DuplicateAdvisory  == "It looks like you're asking a similar question"
EmptyKnowledgeBase == "I'm sorry, the knowledge base appears to be empty"
LowConfidence      == "I'm sorry, I cannot provide a confident answer"

HumanMessage(text) == [role |-> "human", content |-> text]
AIMessage(text)    == [role |-> "ai", content |-> text]

(***************************************************************************)
(* llm_query.js: the helpers of getResponse.                               *)
(***************************************************************************)
\* faulty variant: the duplicate test compares against a higher bar
areQuestionsSimilarStrict(question1, question2) ==
  AtLeast(cosineSimilarity(embedQuery(question1), embedQuery(question2)).value,
          DuplicateThreshold + 10, ThresholdScale)

areQuestionsSimilar(question1, question2) ==
  AtLeast(cosineSimilarity(embedQuery(question1), embedQuery(question2)).value,
          DuplicateThreshold, ThresholdScale)

getConfidenceScore(query, document) ==
  cosineSimilarity(embedQuery(query), embedQuery(document)).value

\* retrievedDocs.map(doc => getConfidenceScore(userQuestion, doc.pageContent))
ConfidenceScores(userQuestion, retrievedDocs) ==
  [i \in 1 .. Len(retrievedDocs) |->
     getConfidenceScore(userQuestion, retrievedDocs[i].pageContent)]

\* faulty variant: the gate compares with <= and rejects a best score equal to the
\* threshold
GateDecisionStrict(confidenceScores) ==
  IF Len(confidenceScores) = 0 THEN "empty"
  ELSE IF ~Above(MathMax(confidenceScores), confidenceThreshold, ThresholdScale)
  THEN "low"
  ELSE "pass"

\* faulty variant: the empty check of line 187 is missing
GateDecisionNoEmptyCheck(confidenceScores) ==
  IF Below(MathMax(confidenceScores), confidenceThreshold, ThresholdScale)
  THEN "low"
  ELSE "pass"

\* lines 187-197: the two early returns of the confidence gate
GateDecision(confidenceScores) ==
  IF Len(confidenceScores) = 0 THEN "empty"
  ELSE IF Below(MathMax(confidenceScores), confidenceThreshold, ThresholdScale)
  THEN "low"
  ELSE "pass"

\* getSessionHistory: the store with the session's entry created if missing
getSessionHistory(store, sessionId) ==
  IF sessionId \in DOMAIN store THEN store
  ELSE [s \in DOMAIN store \cup {sessionId} |->
          IF s = sessionId THEN <<>> ELSE store[s]]

\* faulty variant: the chain saves the answer before the question
HistoryAfterInvokeSwapped(messages, input, answer) ==
  messages \o <<AIMessage(answer), HumanMessage(input)>>

\* RunnableWithMessageHistory: a successful run saves the input message and
\* then the output message
HistoryAfterInvoke(messages, input, answer) ==
  messages \o <<HumanMessage(input), AIMessage(answer)>>

\* the documents documentPrompt is applied to, in order: formatting stops at
\* the first document that has no value for {url}
RECURSIVE FormattedDocs(_)
FormattedDocs(docs) ==
  IF docs = <<>> THEN <<>>
  ELSE IF Head(docs).url = NoUrl THEN <<Head(docs)>>
  ELSE <<Head(docs)>> \o FormattedDocs(Tail(docs))

\* index of the first human message at or after position from, or Len + 1
RECURSIVE NextHuman(_, _)
NextHuman(messages, from) ==
  IF from > Len(messages) THEN Len(messages) + 1
  ELSE IF messages[from].role = "human" THEN from
  ELSE NextHuman(messages, from + 1)

(***************************************************************************)
(* More bounds, and the constants of the code.                             *)
(***************************************************************************)
\* socket.io connections over the life of the server (socket ids 1..MaxSockets)
MaxSockets == 2
\* 'query' events handled over the life of the server
MaxQueries == 2

\* db_singleton.js line 26
maxRetries == 3

Sockets == 1 .. MaxSockets

\* the user_session_id a client may present in its handshake, and the one
\* uuidv4() makes for a socket that presents none
ClientSessionId == [kind |-> "client", n |-> 1]
Uuid(socket) == [kind |-> "uuidv4", n |-> socket]
NoSessionId == [kind |-> "none", n |-> 0]

\* sessions[socket.id] after delete, or before the connection
NoSession == [userSessionId |-> NoSessionId, requestInProgress |-> FALSE,
              present |-> FALSE]

\* ChromaDB._instance before the first getInstance
NullInstance == [created |-> FALSE, db |-> FALSE, retriever |-> FALSE]

(***************************************************************************)
(* State.                                                                  *)
(***************************************************************************)
VARIABLES
  vectorA,      \* first argument of the cosineSimilarity calls under test
  vectorB,      \* second argument
  cosResult,    \* outcome of cosineSimilarity(vectorA, vectorB), or NotCalled
  cosSwapped,   \* outcome of cosineSimilarity(vectorB, vectorA), or NotCalled
  documents,    \* the array handed to fixDocumentMetadata, changed in place
  fixCall,      \* the fixDocumentMetadata call under test: its input and result
  FILE_PASSWORD,  \* app.js line 28: process.env.FILE_PASSWORD
  httpRequest,  \* the http request being served, or the last one served
  windowHits,   \* http requests that reached a route in the current window
  embeddingCache,  \* the entries of the object this._embeddingCache refers to
  cacheObject,  \* which object that is: the number of clears so far
  cacheCalls,   \* per caller: its getCachedEmbedding call
  cacheUse,     \* how the cache was used: calls, overlap, computations
  startPc,      \* position of startServer (app.js 246-253)
  retryCount,   \* ChromaDB._initialize: its local retryCount while it runs
  initLog,      \* what _initialize did, in order, until startServer listens
  instance,     \* ChromaDB._instance and its db and retriever fields
  instanceCalls,  \* by caller: its ChromaDB.getInstance call, once it called
  retriever,    \* app.js `retriever`: "undefined" or "retriever"
  conversationCollection,  \* app.js: TRUE once connectToMongo succeeded
  listening,    \* server.listen was called
  socketState,  \* per socket id: "unused", "connected" or "closed"
  sessions,     \* app.js `sessions`, by socket id
  chatHistoriesStore,  \* llm_query.js: session id -> sequence of messages
  currentModel, \* llm_query.js `currentModel`
  queries,      \* 'query' events handled so far, accepted or turned away
  unhandled,    \* per socket: the query handler ended in an unhandled rejection
  req           \* per socket: the query handler's getResponse call in flight

cosVars == <<vectorA, vectorB, cosResult, cosSwapped>>
fixVars == <<documents, fixCall>>
\* the variables of the functions and routes that are checked on their own
httpVars == <<FILE_PASSWORD, httpRequest, windowHits>>
cacheVars == <<embeddingCache, cacheObject, cacheCalls, cacheUse>>
auxVars == <<cosVars, fixVars, httpVars, cacheVars>>
startVars == <<startPc, retryCount, initLog, instance, instanceCalls,
               retriever, conversationCollection, listening>>
socketVars == <<socketState, sessions, unhandled>>
coreVars == <<chatHistoriesStore, currentModel, queries, req>>
sysVars == <<startVars, socketVars, coreVars>>
vars == <<auxVars, sysVars>>

NotCalled == [threw |-> FALSE, error |-> "not called", value |-> Zero]

\* a query handler that is not running.  ended and emitted tell of the run
\* under way or, between two runs, of the last one: whether it has come to
\* its end, and the reply events ('answer', 'error') it emitted; rejected
\* counts the 'query' events turned away since the run began.
IdleRequest ==
  [pc |-> "idle", userQuestion |-> "none", sessionId |-> NoSessionId,
   next |-> 0, startLen |-> 0,
   retrievedDocs |-> <<>>, confidenceScores |-> <<>>,
   contextDocs |-> <<>>, formatted |-> <<>>,
   stages |-> <<>>, retrievals |-> 0, llmCalls |-> 0,
   failures |-> 0, appended |-> 0,
   outcome |-> "none", error |-> "none", response |-> "none",
   rejected |-> 0, ended |-> FALSE, emitted |-> <<>>]

SysInit ==
  /\ startPc = "connectToMongo"
  /\ retryCount = 0
  /\ initLog = <<>>
  /\ instance = NullInstance
  /\ instanceCalls = <<>>
  /\ retriever = "undefined"
  /\ conversationCollection = FALSE
  /\ listening = FALSE
  /\ socketState = [k \in Sockets |-> "unused"]
  /\ sessions = [k \in Sockets |-> NoSession]
  /\ chatHistoriesStore = <<>>
  /\ currentModel = "null"
  /\ queries = 0
  /\ unhandled = [k \in Sockets |-> FALSE]
  /\ req = [k \in Sockets |-> IdleRequest]

\* no fixDocumentMetadata call
NoFixCall == [called |-> FALSE, input |-> <<>>, returned |-> <<>>]

\* the functions checked on their own are not called
CosIdle ==
  /\ vectorA = <<>>
  /\ vectorB = <<>>
  /\ cosResult = NotCalled
  /\ cosSwapped = NotCalled

FixIdle ==
  /\ documents = <<>>
  /\ fixCall = NoFixCall

\* no http request yet
NoHttpRequest ==
  [pc |-> "idle", route |-> "none",
   password |-> [defined |-> FALSE, text |-> ""],
   status |-> 0, body |-> "none", readCollection |-> FALSE]

HttpIdle ==
  /\ FILE_PASSWORD = [defined |-> TRUE, text |-> "your-export-password"]
  /\ httpRequest = NoHttpRequest
  /\ windowHits = 0

\* the texts getCachedEmbedding is called with
CacheTexts == {"How do I add a widget?", "How do I deploy?"}

\* no getCachedEmbedding or clearEmbeddingCache call yet
NoCacheUse ==
  [calls |-> 0, concurrent |-> FALSE,
   computed |-> [text \in CacheTexts |-> 0]]

CacheIdle ==
  /\ embeddingCache = <<>>
  /\ cacheObject = 0
  /\ cacheCalls = <<>>
  /\ cacheUse = NoCacheUse

Init ==
  /\ CosIdle
  /\ FixIdle
  /\ HttpIdle
  /\ CacheIdle
  /\ SysInit

(***************************************************************************)
(* app.js: startServer, connectToMongo, initChroma; db_singleton.js:       *)
(* getInstance and _initialize.                                            *)
(***************************************************************************)
\* connectToMongo: a failure is logged and swallowed (lines 50-61)
ConnectToMongo ==
  /\ startPc = "connectToMongo"
  /\ \E ok \in BOOLEAN : conversationCollection' = ok
  /\ startPc' = "initChroma"
  /\ UNCHANGED <<retryCount, initLog, instance, instanceCalls, retriever,
                 listening, auxVars, socketVars, coreVars>>

\* initChroma calls ChromaDB.getInstance, which creates the instance and
\* enters _initialize (lines 17-27)
GetInstance ==
  /\ startPc = "initChroma"
  /\ IF ~instance.created
     THEN /\ instance' = [instance EXCEPT !.created = TRUE]
          /\ retryCount' = 0
          /\ startPc' = "attempt"
          /\ UNCHANGED retriever
     ELSE /\ retriever' = IF instance.retriever THEN "retriever"
                          ELSE "undefined"
          /\ startPc' = "listen"
          /\ UNCHANGED <<instance, retryCount>>
  /\ UNCHANGED <<initLog, instanceCalls, conversationCollection, listening,
                 auxVars, socketVars, coreVars>>

\* the entries of initLog; a failed attempt's error bears the attempt's number
SucceededAttempt == [event |-> "succeeded", error |-> 0]
FailedAttempt(n) == [event |-> "failed", error |-> n]
Waited == [event |-> "waited", error |-> 0]
Threw(n) == [event |-> "threw", error |-> n]

\* faulty variant: the test of line 79 lets the third failure pass
AfterFailedAttemptLateCheck(count) ==
  IF count > maxRetries THEN "throw" ELSE "backoff"

\* lines 79-85, with retryCount already counted up: throw e, or wait
AfterFailedAttempt(count) ==
  IF count >= maxRetries THEN "throw" ELSE "backoff"

\* one pass of the retry loop (lines 29-87): success sets db and retriever
\* and returns to initChroma, which sets app.js's retriever; a failure counts,
\* and the third one throws into initChroma's catch, which only logs it.
\* retryCount is local to _initialize and is gone (0 here) once it has ended.
InitializeAttempt ==
  /\ startPc = "attempt"
  /\ retryCount < maxRetries
  /\ \E ok \in BOOLEAN :
       IF ok
       THEN /\ instance' = [instance EXCEPT !.db = TRUE, !.retriever = TRUE]
            /\ retriever' = "retriever"
            /\ startPc' = "listen"
            /\ retryCount' = 0
            /\ initLog' = Append(initLog, SucceededAttempt)
       ELSE LET count == retryCount + 1
                thrown == AfterFailedAttempt(count) = "throw"
            IN  /\ retryCount' = IF thrown THEN 0 ELSE count
                /\ startPc' = IF thrown THEN "listen" ELSE "backoff"
                /\ initLog' = initLog \o <<FailedAttempt(count)>>
                                 \o (IF thrown THEN <<Threw(count)>> ELSE <<>>)
                /\ UNCHANGED <<instance, retriever>>
  /\ UNCHANGED <<instanceCalls, conversationCollection, listening, auxVars,
                 socketVars, coreVars>>

\* the 2000 ms timer of line 85 fires
Backoff ==
  /\ startPc = "backoff"
  /\ startPc' = "attempt"
  /\ initLog' = Append(initLog, Waited)
  /\ UNCHANGED <<retryCount, instance, instanceCalls, retriever,
                 conversationCollection, listening, auxVars, socketVars,
                 coreVars>>

\* server.listen (line 250)
Listen ==
  /\ startPc = "listen"
  /\ listening' = TRUE
  /\ startPc' = "running"
  /\ initLog' = <<>>
  /\ UNCHANGED <<retryCount, instance, instanceCalls, retriever,
                 conversationCollection, auxVars, socketVars, coreVars>>

(***************************************************************************)
(* llm_query.js: getResponse, one action per stretch between two awaits.   *)
(***************************************************************************)
Stage(r, name) == [r EXCEPT !.stages = Append(@, name)]

Throw(r, what) == [r EXCEPT !.pc = "threw", !.outcome = "threw",
                            !.error = what]

Return(r, text) == [r EXCEPT !.pc = "returned", !.outcome = "returned",
                             !.response = text]

\* faulty variant: the rejection is caught and a fallback text is returned
UpstreamFailureSwallowed(r, what) ==
  Return([r EXCEPT !.failures = @ + 1, !.error = what], LowConfidence)

\* an upstream call (embedding, vector search, model) rejected: nothing in
\* getResponse catches it (lines 167-210)
UpstreamFailure(r, what) ==
  Throw([r EXCEPT !.failures = @ + 1], what)

\* line 180: retriever.invoke(userQuestion); app.js's retriever is undefined
\* when initChroma failed, and the call is then a TypeError
EnterRetrieval(r) ==
  IF retriever = "undefined"
  THEN Throw(Stage(r, "retrieve"), "TypeError")
  ELSE [Stage(r, "retrieve") EXCEPT !.pc = "retrieve", !.retrievals = @ + 1]

\* faulty variant: the retrieval is started while the loop is still comparing
GuardLoopRetrievesEarly(r, messages, from) ==
  LET j == NextHuman(messages, from)
  IN  IF j <= Len(messages)
      THEN [r EXCEPT !.pc = "guard", !.next = j, !.retrievals = 1]
      ELSE EnterRetrieval([r EXCEPT !.next = Len(messages) + 1,
                                    !.retrievals = 0])

\* lines 171-180: the loop runs on, skipping the messages that are not human,
\* to the next areQuestionsSimilar call or out of the loop into retrieval
GuardLoop(r, messages, from) ==
  LET j == NextHuman(messages, from)
  IN  IF j <= Len(messages)
      THEN [r EXCEPT !.pc = "guard", !.next = j]
      ELSE EnterRetrieval([r EXCEPT !.next = Len(messages) + 1])

\* lines 199-206: setupLlmAndDb, then the chain is invoked: with an empty
\* chat history the history-aware retriever passes the input to the
\* retriever, otherwise the model first rewrites the question
EnterChain(r, messages) ==
  IF messages = <<>>
  THEN [r EXCEPT !.pc = "chainRetrieve", !.retrievals = @ + 1]
  ELSE [r EXCEPT !.pc = "contextualize", !.llmCalls = @ + 1]

\* lines 187-206, once the scores are there
AfterScores(r, messages) ==
  LET decision == GateDecision(r.confidenceScores)
  IN  CASE decision = "empty" -> Return(r, EmptyKnowledgeBase)
        [] decision = "low"   -> Return(r, LowConfidence)
        [] OTHER              -> EnterChain(Stage(r, "answer"), messages)

(***************************************************************************)
(* app.js: the socket.io handlers.                                         *)
(***************************************************************************)
\* io.on('connection'): lines 135-147.  Socket ids are handed out in order.
Connection(k) ==
  /\ listening
  /\ socketState[k] = "unused"
  /\ \A j \in Sockets : j < k => socketState[j] # "unused"
  /\ \E presented \in {ClientSessionId, NoSessionId} :
       sessions' = [sessions EXCEPT ![k] =
         [userSessionId |-> IF presented = NoSessionId THEN Uuid(k)
                            ELSE presented,
          requestInProgress |-> FALSE,
          present |-> TRUE]]
  /\ socketState' = [socketState EXCEPT ![k] = "connected"]
  /\ UNCHANGED <<unhandled, auxVars, startVars, coreVars>>

\* faulty variant: the handler that turns a query away also gives the flag up
QueryRejectedReleasesFlag(k) ==
  /\ socketState[k] = "connected"
  /\ sessions[k].requestInProgress
  /\ queries < MaxQueries
  /\ queries' = queries + 1
  /\ req' = [req EXCEPT ![k].rejected = @ + 1]
  /\ sessions' = [sessions EXCEPT ![k].requestInProgress = FALSE]
  /\ UNCHANGED <<socketState, unhandled, chatHistoriesStore, currentModel,
                 auxVars, startVars>>

\* socket.on('query') while a request is in progress: lines 150-153.  The
\* handler emits the 'Please wait' error and returns; req[k].rejected counts
\* these replies, and nothing the server holds changes.
QueryRejected(k) ==
  /\ socketState[k] = "connected"
  /\ sessions[k].requestInProgress
  /\ queries < MaxQueries
  /\ queries' = queries + 1
  /\ req' = [req EXCEPT ![k].rejected = @ + 1]
  /\ UNCHANGED <<socketVars, chatHistoriesStore, currentModel, auxVars,
                 startVars>>

\* socket.on('query'), lines 155-165, and getResponse up to its first await
\* (lines 168-180).  The questions of the model hold no markup, so
\* sanitizeHtml leaves them as they are.
Query(k, userQuestion) ==
  /\ socketState[k] = "connected"
  /\ ~sessions[k].requestInProgress
  /\ queries < MaxQueries
  /\ queries' = queries + 1
  /\ sessions' = [sessions EXCEPT ![k].requestInProgress = TRUE]
  /\ LET sessionId == sessions[k].userSessionId
         store == getSessionHistory(chatHistoriesStore, sessionId)
         r == [IdleRequest EXCEPT !.userQuestion = userQuestion,
                                  !.sessionId = sessionId,
                                  !.startLen = Len(store[sessionId]),
                                  !.stages = <<"guard">>]
     IN  /\ chatHistoriesStore' = store
         /\ req' = [req EXCEPT ![k] = GuardLoop(r, store[sessionId], 1)]
  /\ UNCHANGED <<socketState, unhandled, currentModel, auxVars, startVars>>

\* socket.on('query') with no payload: data is undefined.  The flag is set
\* (line 155) and data.query (line 158), which is outside the try block, is a
\* TypeError: the run ends there in an unhandled rejection, with nothing
\* emitted and the finally block never reached.
QueryWithoutPayload(k) ==
  /\ socketState[k] = "connected"
  /\ ~sessions[k].requestInProgress
  /\ queries < MaxQueries
  /\ queries' = queries + 1
  /\ sessions' = [sessions EXCEPT ![k].requestInProgress = TRUE]
  /\ unhandled' = [unhandled EXCEPT ![k] = TRUE]
  /\ req' = [req EXCEPT ![k] = [IdleRequest EXCEPT !.ended = TRUE]]
  /\ UNCHANGED <<socketState, chatHistoriesStore, currentModel, auxVars,
                 startVars>>

\* faulty variant: the question is saved to the history before the advisory
\* is returned
GuardStepSavesQuestion(k) ==
  /\ req[k].pc = "guard"
  /\ LET r == req[k]
         messages == chatHistoriesStore[r.sessionId]
     IN  \E ok \in BOOLEAN :
           IF ok /\ areQuestionsSimilar(r.userQuestion,
                                        messages[r.next].content)
           THEN /\ req' = [req EXCEPT ![k] = Return(r, DuplicateAdvisory)]
                /\ chatHistoriesStore' =
                     [chatHistoriesStore EXCEPT ![r.sessionId] =
                        Append(messages, HumanMessage(r.userQuestion))]
           ELSE /\ req' = [req EXCEPT ![k] =
                     IF ~ok THEN UpstreamFailure(r, "EmbeddingProviderError")
                     ELSE GuardLoop(r, messages, r.next + 1)]
                /\ UNCHANGED chatHistoriesStore
  /\ UNCHANGED <<currentModel, queries, auxVars, startVars, socketVars>>

\* areQuestionsSimilar(userQuestion, message.content) settles (lines 46-52,
\* 173-175): an embedding call rejects, or the questions are similar and
\* the advisory is returned, or the loop goes on
GuardStep(k) ==
  /\ req[k].pc = "guard"
  /\ LET r == req[k]
         messages == chatHistoriesStore[r.sessionId]
     IN  \E ok \in BOOLEAN :
           req' = [req EXCEPT ![k] =
             IF ~ok THEN UpstreamFailure(r, "EmbeddingProviderError")
             ELSE IF areQuestionsSimilar(r.userQuestion,
                                         messages[r.next].content)
             THEN Return(r, DuplicateAdvisory)
             ELSE GuardLoop(r, messages, r.next + 1)]
  /\ UNCHANGED <<chatHistoriesStore, currentModel, queries, auxVars,
                 startVars, socketVars>>

\* retriever.invoke(userQuestion) settles (line 180); the scores of no
\* documents are there at once (lines 183-189)
RetrieveStep(k) ==
  /\ req[k].pc = "retrieve"
  /\ LET r == req[k]
     IN  \/ /\ req' = [req EXCEPT ![k] =
                  UpstreamFailure(r, "VectorSearchError")]
            /\ UNCHANGED currentModel
         \/ \E docs \in RetrieverResults :
              LET got == Stage([r EXCEPT !.retrievedDocs = docs], "gate")
              IN  /\ req' = [req EXCEPT ![k] =
                       IF docs = <<>>
                       THEN AfterScores(got, chatHistoriesStore[r.sessionId])
                       ELSE [got EXCEPT !.pc = "score"]]
                  /\ UNCHANGED currentModel
  /\ UNCHANGED <<chatHistoriesStore, queries, auxVars, startVars, socketVars>>

\* Promise.all over getConfidenceScore settles (lines 183-185), then the gate
\* (lines 187-197) and, past it, setupLlmAndDb and the chain's first call
ScoreStep(k) ==
  /\ req[k].pc = "score"
  /\ LET r == req[k]
     IN  \E ok \in BOOLEAN :
           IF ~ok
           THEN /\ req' = [req EXCEPT ![k] =
                     UpstreamFailure(r, "EmbeddingProviderError")]
                /\ UNCHANGED currentModel
           ELSE LET scored == [r EXCEPT !.confidenceScores =
                                 ConfidenceScores(r.userQuestion,
                                                  r.retrievedDocs)]
                    after == AfterScores(scored,
                                         chatHistoriesStore[r.sessionId])
                IN  /\ req' = [req EXCEPT ![k] = after]
                    /\ currentModel' = IF after.pc = "returned"
                                       THEN currentModel ELSE "gpt-4o"
  /\ UNCHANGED <<chatHistoriesStore, queries, auxVars, startVars, socketVars>>

\* the model's rewrite of the question settles; the chain then calls the
\* retriever (lines 94-99)
ContextualizeStep(k) ==
  /\ req[k].pc = "contextualize"
  /\ LET r == req[k]
     IN  \E ok \in BOOLEAN :
           req' = [req EXCEPT ![k] =
             IF ~ok THEN UpstreamFailure(r, "ModelInvocationError")
             ELSE [r EXCEPT !.pc = "chainRetrieve", !.retrievals = @ + 1]]
  /\ UNCHANGED <<chatHistoriesStore, currentModel, queries, auxVars,
                 startVars, socketVars>>

\* the chain's retrieval settles; its documents are formatted with
\* documentPrompt (lines 131-141), which fails on a document without url,
\* and the model is called with the context
ChainRetrieveStep(k) ==
  /\ req[k].pc = "chainRetrieve"
  /\ LET r == req[k]
     IN  \/ req' = [req EXCEPT ![k] = UpstreamFailure(r, "VectorSearchError")]
         \/ \E docs \in RetrieverResults :
              LET got == [r EXCEPT !.contextDocs = docs,
                                   !.formatted = FormattedDocs(docs)]
              IN  req' = [req EXCEPT ![k] =
                    IF \E i \in 1 .. Len(docs) : docs[i].url = NoUrl
                    THEN Throw(got, "MissingPromptVariable")
                    ELSE [got EXCEPT !.pc = "answer", !.llmCalls = @ + 1]]
  /\ UNCHANGED <<chatHistoriesStore, currentModel, queries, auxVars,
                 startVars, socketVars>>

\* the model's answer settles (lines 203-209): on success the chain saves
\* question and answer to the session's history and getResponse returns the
\* answer
AnswerStep(k) ==
  /\ req[k].pc = "answer"
  /\ LET r == req[k]
         messages == chatHistoriesStore[r.sessionId]
         answer == ModelAnswer(r.userQuestion)
     IN  \E ok \in BOOLEAN :
           IF ~ok
           THEN /\ req' = [req EXCEPT ![k] =
                     UpstreamFailure(r, "ModelInvocationError")]
                /\ UNCHANGED chatHistoriesStore
           ELSE LET saved == HistoryAfterInvoke(messages, r.userQuestion,
                                                answer)
                IN  /\ chatHistoriesStore' =
                         [chatHistoriesStore EXCEPT ![r.sessionId] = saved]
                    /\ req' = [req EXCEPT ![k] =
                         Return([Stage(r, "history") EXCEPT
                                   !.appended = Len(saved) - Len(messages)],
                                answer)]
  /\ UNCHANGED <<currentModel, queries, auxVars, startVars, socketVars>>

\* app.js lines 165-176: the awaited getResponse settled; the answer event is
\* emitted and logging starts, or the catch block emits the error event
Reply(k) ==
  /\ req[k].pc \in {"returned", "threw"}
  /\ req' = [req EXCEPT ![k] = [IdleRequest EXCEPT
       !.pc = IF req[k].pc = "returned" THEN "logging" ELSE "finally",
       !.rejected = req[k].rejected,
       !.emitted = IF req[k].pc = "returned" THEN <<"answer">>
                   ELSE <<"error">>]]
  /\ UNCHANGED <<socketVars, chatHistoriesStore, currentModel, queries,
                 auxVars, startVars>>

\* logToSlack and logToMongo (lines 89-132, 172-173): both catch their own
\* failures
LogAnswer(k) ==
  /\ req[k].pc = "logging"
  /\ req' = [req EXCEPT ![k].pc = "finally"]
  /\ UNCHANGED <<chatHistoriesStore, currentModel, queries, auxVars,
                 startVars, socketVars>>

\* the finally block (line 178): sessions[socket.id] is gone after a
\* disconnect, and the assignment is then a TypeError nobody catches
Finally(k) ==
  /\ req[k].pc = "finally"
  /\ IF sessions[k].present
     THEN /\ sessions' = [sessions EXCEPT ![k].requestInProgress = FALSE]
          /\ UNCHANGED unhandled
     ELSE /\ unhandled' = [unhandled EXCEPT ![k] = TRUE]
          /\ UNCHANGED sessions
  /\ req' = [req EXCEPT ![k] = [IdleRequest EXCEPT
       !.ended = TRUE, !.emitted = req[k].emitted]]
  /\ UNCHANGED <<socketState, chatHistoriesStore, currentModel, queries,
                 auxVars, startVars>>

\* faulty variant: clearing the session also empties its stored history
ClearSessionForgetsHistory(k) ==
  /\ socketState[k] = "connected"
  /\ sessions' = [sessions EXCEPT ![k] = NoSession]
  /\ socketState' = [socketState EXCEPT ![k] = "closed"]
  /\ chatHistoriesStore' =
       [s \in DOMAIN chatHistoriesStore |->
          IF s = sessions[k].userSessionId THEN <<>>
          ELSE chatHistoriesStore[s]]
  /\ UNCHANGED <<unhandled, auxVars, startVars, currentModel, queries, req>>

\* socket.on('clear_session'): lines 182-186
ClearSession(k) ==
  /\ socketState[k] = "connected"
  /\ sessions' = [sessions EXCEPT ![k] = NoSession]
  /\ socketState' = [socketState EXCEPT ![k] = "closed"]
  /\ UNCHANGED <<unhandled, auxVars, startVars, coreVars>>

\* socket.on('disconnect'): lines 188-190
Disconnect(k) ==
  /\ socketState[k] = "connected"
  /\ sessions' = [sessions EXCEPT ![k] = NoSession]
  /\ socketState' = [socketState EXCEPT ![k] = "closed"]
  /\ UNCHANGED <<unhandled, auxVars, startVars, coreVars>>

Next ==
  \/ ConnectToMongo
  \/ GetInstance
  \/ InitializeAttempt
  \/ Backoff
  \/ Listen
  \/ \E k \in Sockets : Connection(k)
  \/ \E k \in Sockets : QueryRejected(k)
  \/ \E k \in Sockets : \E q \in Questions : Query(k, q)
  \/ \E k \in Sockets : QueryWithoutPayload(k)
  \/ \E k \in Sockets : GuardStep(k)
  \/ \E k \in Sockets : RetrieveStep(k)
  \/ \E k \in Sockets : ScoreStep(k)
  \/ \E k \in Sockets : ContextualizeStep(k)
  \/ \E k \in Sockets : ChainRetrieveStep(k)
  \/ \E k \in Sockets : AnswerStep(k)
  \/ \E k \in Sockets : Reply(k)
  \/ \E k \in Sockets : LogAnswer(k)
  \/ \E k \in Sockets : Finally(k)
  \/ \E k \in Sockets : ClearSession(k)
  \/ \E k \in Sockets : Disconnect(k)

Spec == Init /\ [][Next]_vars

(***************************************************************************)
(* SpecCos: cosineSimilarity applied to every pair of bounded vectors.     *)
(***************************************************************************)
Component == -1 .. MaxComp
Vectors == UNION {[1 .. n -> Component] : n \in 0 .. MaxDim}

InitCos ==
  /\ vectorA \in Vectors
  /\ vectorB \in Vectors
  /\ cosResult = NotCalled
  /\ cosSwapped = NotCalled
  /\ FixIdle
  /\ HttpIdle
  /\ CacheIdle
  /\ SysInit

CosineCall ==
  /\ cosResult = NotCalled
  /\ cosResult' = cosineSimilarity(vectorA, vectorB)
  /\ UNCHANGED <<vectorA, vectorB, cosSwapped, fixVars, httpVars, cacheVars,
                 sysVars>>

CosineCallSwapped ==
  /\ cosSwapped = NotCalled
  /\ cosSwapped' = cosineSimilarity(vectorB, vectorA)
  /\ UNCHANGED <<vectorA, vectorB, cosResult, fixVars, httpVars, cacheVars,
                 sysVars>>

NextCos == CosineCall \/ CosineCallSwapped

SpecCos == InitCos /\ [][NextCos]_vars

(***************************************************************************)
(* db_singleton.js: fixDocumentMetadata.  A text is a sequence of pieces:  *)
(* the marker 'Reference URL:', a line break, a blank, or a word.  An      *)
(* array index i of the code is position i + 1 here.                       *)
(***************************************************************************)
\* the pieces of all the documents of one call together, at most
MaxTokens == 3
\* the documents of one call, at most
MaxDocs == 2

ReferenceUrl == "Reference URL:"
Newline == "\n"
Blank == " "
Word == "https://example.com/x"
Pieces == {ReferenceUrl, Newline, Blank, Word}

DefaultUrl == <<"https://docs.apostrophecms.org/">>
PriorUrl == <<"https://docs.apostrophecms.org/guide">>
\* a url that is undefined or ''
MissingUrl == <<>>

\* text.split('\n'): the lines of a text; the empty text has one empty line
RECURSIVE Split(_)
Split(text) ==
  IF text = <<>> THEN << <<>> >>
  ELSE LET rest == Split(Tail(text))
       IN  IF Head(text) = Newline
           THEN << <<>> >> \o rest
           ELSE << <<Head(text)>> \o Head(rest) >> \o Tail(rest)

\* lines.join('\n')
RECURSIVE Join(_)
Join(lines) ==
  IF lines = <<>> THEN <<>>
  ELSE IF Len(lines) = 1 THEN lines[1]
  ELSE lines[1] \o <<Newline>> \o Join(Tail(lines))

\* text.includes(piece)
Includes(text, piece) == \E i \in 1 .. Len(text) : text[i] = piece

\* text.replace(piece, ''): the first occurrence is taken out
RECURSIVE Replace(_, _)
Replace(text, piece) ==
  IF text = <<>> THEN <<>>
  ELSE IF Head(text) = piece THEN Tail(text)
  ELSE <<Head(text)>> \o Replace(Tail(text), piece)

IsWhitespace(piece) == piece \in {Blank, Newline}

RECURSIVE TrimStart(_)
TrimStart(text) ==
  IF text # <<>> /\ IsWhitespace(Head(text)) THEN TrimStart(Tail(text))
  ELSE text

RECURSIVE TrimEnd(_)
TrimEnd(text) ==
  IF text # <<>> /\ IsWhitespace(text[Len(text)])
  THEN TrimEnd(SubSeq(text, 1, Len(text) - 1))
  ELSE text

\* text.trim()
Trim(text) == TrimEnd(TrimStart(text))

\* lines 137-143: the first line that includes the marker (0 if there is none)
UrlLineIndex(contentLines) ==
  LET urlLineIndices == {i \in 1 .. Len(contentLines) :
                           Includes(contentLines[i], ReferenceUrl)}
  IN  IF urlLineIndices = {} THEN 0
      ELSE CHOOSE i \in urlLineIndices : \A j \in urlLineIndices : i <= j

\* contentLines.filter((_, i) => i !== urlLineIndex)
WithoutLine(contentLines, urlLineIndex) ==
  SubSeq(contentLines, 1, urlLineIndex - 1)
    \o SubSeq(contentLines, urlLineIndex + 1, Len(contentLines))

\* lines 123-130: metadata that is missing or no object becomes {}
EnsureMetadata(doc) ==
  IF doc.metadata.kind # "object"
  THEN [doc EXCEPT !.metadata = [kind |-> "object", url |-> MissingUrl]]
  ELSE doc

\* lines 132-158: the url is taken from the text
ExtractUrl(doc) ==
  IF /\ doc.metadata.url = MissingUrl
     /\ doc.pageContent # <<>>
     /\ Includes(doc.pageContent, ReferenceUrl)
  THEN LET contentLines == Split(doc.pageContent)
           urlLineIndex == UrlLineIndex(contentLines)
       IN  IF urlLineIndex = 0 THEN doc
           ELSE [doc EXCEPT
                   !.metadata.url =
                      Trim(Replace(contentLines[urlLineIndex], ReferenceUrl)),
                   !.pageContent =
                      Join(WithoutLine(contentLines, urlLineIndex))]
  ELSE doc

\* faulty variant: the fallback of lines 161-163 is missing
WithDefaultUrlForgotten(doc) == doc

\* lines 160-163: still no url, the default one is set
WithDefaultUrl(doc) ==
  IF doc.metadata.url = MissingUrl
  THEN [doc EXCEPT !.metadata.url = DefaultUrl]
  ELSE doc

\* the body of the loop of lines 122-164 for one document
FixDocument(doc) == WithDefaultUrl(ExtractUrl(EnsureMetadata(doc)))

fixDocumentMetadata(docs) == [i \in 1 .. Len(docs) |-> FixDocument(docs[i])]

(***************************************************************************)
(* SpecFix: fixDocumentMetadata applied to every bounded array of          *)
(* documents.                                                              *)
(***************************************************************************)
\* doc.metadata: undefined, {} or an object that has a url
Metadatas == {[kind |-> "undefined", url |-> MissingUrl],
              [kind |-> "object", url |-> MissingUrl],
              [kind |-> "object", url |-> PriorUrl]}

\* the array of documents whose texts are the stretches of text that end at
\* the positions ends[1] <= ... <= ends[n]
DocumentArray(text, ends, metadatas) ==
  [i \in 1 .. Len(ends) |->
     [pageContent |-> SubSeq(text,
                             (IF i = 1 THEN 0 ELSE ends[i - 1]) + 1, ends[i]),
      metadata |-> metadatas[i]]]

\* every array of at most MaxDocs documents that hold at most MaxTokens
\* pieces together
InitFix ==
  /\ \E n \in 0 .. MaxDocs : \E size \in 0 .. MaxTokens :
       \E text \in [1 .. size -> Pieces] :
         \E ends \in [1 .. n -> 0 .. size] :
           \E metadatas \in [1 .. n -> Metadatas] :
             /\ \A i \in 1 .. n - 1 : ends[i] <= ends[i + 1]
             /\ IF n = 0 THEN size = 0 ELSE ends[n] = size
             /\ documents = DocumentArray(text, ends, metadatas)
  /\ fixCall = NoFixCall
  /\ CosIdle
  /\ HttpIdle
  /\ CacheIdle
  /\ SysInit

\* the call: the loop changes the documents in place and the array is returned
FixDocumentMetadataCall ==
  /\ ~fixCall.called
  /\ documents' = fixDocumentMetadata(documents)
  /\ fixCall' = [called |-> TRUE, input |-> documents,
                 returned |-> fixDocumentMetadata(documents)]
  /\ UNCHANGED <<cosVars, httpVars, cacheVars, sysVars>>

NextFix == FixDocumentMetadataCall

SpecFix == InitFix /\ [][NextFix]_vars

(***************************************************************************)
(* app.js: the express routes.  A parameter or an environment variable is  *)
(* undefined or a string.                                                  *)
(***************************************************************************)
\* requests handled within one window of the limiter, at most
MaxRequests == 3

\* line 66: max
RateLimitMax == 2

UndefinedValue == [defined |-> FALSE, text |-> ""]
Text(s) == [defined |-> TRUE, text |-> s]

\* process.env.FILE_PASSWORD: not set, or the export password of the .env file
ConfiguredPasswords == {UndefinedValue, Text("your-export-password")}

\* req.query.password: no parameter, the export password, others
RequestPasswords == {UndefinedValue, Text("your-export-password"),
                     Text("guess"), Text("")}

\* the express routes served over http: every request reaches its route,
\* no middleware stands before it but cors() and express.json() (lines 43-44)
InitHttp ==
  /\ FILE_PASSWORD \in ConfiguredPasswords
  /\ httpRequest = NoHttpRequest
  /\ windowHits = 0
  /\ CosIdle
  /\ FixIdle
  /\ CacheIdle
  /\ SysInit

Respond(request, status, body) ==
  [request EXCEPT !.pc = "responded", !.status = status, !.body = body]

\* app.get('/'): lines 194-196
GetRoot ==
  /\ listening
  /\ httpRequest.pc # "find"
  /\ windowHits < MaxRequests
  /\ windowHits' = windowHits + 1
  /\ httpRequest' = Respond([NoHttpRequest EXCEPT !.route = "/"], 200, "OK")
  /\ UNCHANGED <<FILE_PASSWORD, cosVars, fixVars, cacheVars, sysVars>>

\* app.get('/export_conversations') up to its await: lines 198-211
ExportUntilFind(request) ==
  IF request.password # FILE_PASSWORD
  THEN Respond(request, 403, "Forbidden")
  ELSE IF ~conversationCollection
  THEN Respond(request, 500, "MongoDB not connected")
  ELSE [request EXCEPT !.pc = "find", !.readCollection = TRUE]

GetExportConversations(password) ==
  /\ listening
  /\ httpRequest.pc # "find"
  /\ windowHits < MaxRequests
  /\ windowHits' = windowHits + 1
  /\ httpRequest' =
       ExportUntilFind([NoHttpRequest EXCEPT
                          !.route = "/export_conversations",
                          !.password = password])
  /\ UNCHANGED <<FILE_PASSWORD, cosVars, fixVars, cacheVars, sysVars>>

\* conversationCollection.find({}).toArray() settles: the csv is sent, or
\* the catch block answers 500 (lines 211-240)
ExportFindSettles ==
  /\ httpRequest.pc = "find"
  /\ \E ok \in BOOLEAN :
       httpRequest' =
         IF ok THEN Respond(httpRequest, 200, "conversations.csv")
         ELSE Respond(httpRequest, 500, "Error exporting conversations")
  /\ UNCHANGED <<FILE_PASSWORD, windowHits, cosVars, fixVars, cacheVars,
                 sysVars>>

\* windowMs (line 65) has passed since the window began
WindowElapses ==
  /\ listening
  /\ windowHits > 0
  /\ windowHits' = 0
  /\ UNCHANGED <<FILE_PASSWORD, httpRequest, cosVars, fixVars, cacheVars,
                 sysVars>>

NextHttp ==
  \/ ConnectToMongo
  \/ GetInstance
  \/ InitializeAttempt
  \/ Backoff
  \/ Listen
  \/ GetRoot
  \/ \E password \in RequestPasswords : GetExportConversations(password)
  \/ ExportFindSettles
  \/ WindowElapses

SpecHttp == InitHttp /\ [][NextHttp]_vars

(***************************************************************************)
(* db_singleton.js: getCachedEmbedding and clearEmbeddingCache.  In        *)
(*   this._embeddingCache[text] = await embeddingModel.embedQuery(text)    *)
(* the object this._embeddingCache refers to is looked up before the       *)
(* await, and the value is stored into that object after it.               *)
(***************************************************************************)
\* callers of getCachedEmbedding that may have a call running at once
MaxCallers == 2
\* getCachedEmbedding calls over a run
MaxCalls == 3
\* clearEmbeddingCache calls over a run
MaxClears == 1

Callers == 1 .. MaxCallers

\* what a call returned: an embedding vector or undefined
NoVector == [defined |-> FALSE, value |-> <<>>]
Vector(v) == [defined |-> TRUE, value |-> v]

\* the entries of a new {}
EmptyCache == [text \in CacheTexts |-> NoVector]

\* a caller without a call
NoCacheCall == [pc |-> "idle", text |-> "none", target |-> 0,
                result |-> NoVector]

InitCache ==
  /\ embeddingCache = EmptyCache
  /\ cacheObject = 0
  /\ cacheCalls = [c \in Callers |-> NoCacheCall]
  /\ cacheUse = NoCacheUse
  /\ CosIdle
  /\ FixIdle
  /\ HttpIdle
  /\ SysInit

CallsRunning == {c \in Callers : cacheCalls[c].pc = "embedding"}

\* getCachedEmbedding(text) up to its await (lines 102-110): a hit returns
\* the entry; a miss looks up the cache object and calls embedQuery
GetCachedEmbedding(c, text) ==
  /\ cacheCalls[c].pc # "embedding"
  /\ cacheUse.calls < MaxCalls
  /\ IF embeddingCache[text].defined
     THEN cacheCalls' = [cacheCalls EXCEPT ![c] =
            [pc |-> "returned", text |-> text, target |-> cacheObject,
             result |-> embeddingCache[text]]]
     ELSE cacheCalls' = [cacheCalls EXCEPT ![c] =
            [pc |-> "embedding", text |-> text, target |-> cacheObject,
             result |-> NoVector]]
  /\ cacheUse' = [cacheUse EXCEPT
                    !.calls = @ + 1,
                    !.concurrent = @ \/ CallsRunning # {}]
  /\ UNCHANGED <<embeddingCache, cacheObject, cosVars, fixVars, httpVars,
                 sysVars>>

\* embedQuery settles (lines 110-112): the vector is stored into the object
\* looked up before the await, and the entry of the object that is the
\* cache now is returned; a rejection is thrown to the caller
EmbedQuerySettles(c) ==
  /\ cacheCalls[c].pc = "embedding"
  /\ LET call == cacheCalls[c]
         stored == IF call.target = cacheObject
                   THEN [embeddingCache EXCEPT ![call.text] =
                           Vector(embedQuery(call.text))]
                   ELSE embeddingCache
     IN  \E ok \in BOOLEAN :
           IF ok
           THEN /\ embeddingCache' = stored
                /\ cacheCalls' = [cacheCalls EXCEPT ![c] =
                     [call EXCEPT !.pc = "returned",
                                  !.result = stored[call.text]]]
                /\ cacheUse' = [cacheUse EXCEPT !.computed[call.text] = @ + 1]
           ELSE /\ cacheCalls' = [cacheCalls EXCEPT ![c].pc = "threw"]
                /\ UNCHANGED <<embeddingCache, cacheUse>>
  /\ UNCHANGED <<cacheObject, cosVars, fixVars, httpVars, sysVars>>

\* clearEmbeddingCache (lines 115-119): a new {} becomes the cache
ClearEmbeddingCache ==
  /\ cacheObject < MaxClears
  /\ cacheObject' = cacheObject + 1
  /\ embeddingCache' = EmptyCache
  /\ cacheUse' = [cacheUse EXCEPT
                    !.computed = [text \in CacheTexts |-> 0],
                    !.concurrent = @ \/ CallsRunning # {}]
  /\ UNCHANGED <<cacheCalls, cosVars, fixVars, httpVars, sysVars>>

NextCache ==
  \/ \E c \in Callers : \E text \in CacheTexts : GetCachedEmbedding(c, text)
  \/ \E c \in Callers : EmbedQuerySettles(c)
  \/ ClearEmbeddingCache

SpecCache == InitCache /\ [][NextCache]_vars

(***************************************************************************)
(* db_singleton.js: ChromaDB.getInstance called by several callers of one  *)
(* process, and the _initialize run of the caller that made the instance.  *)
(***************************************************************************)
\* the callers of ChromaDB.getInstance, each calling once
MaxGetters == 3

Getters == 1 .. MaxGetters

\* what a returned instance looks like to its caller at the time of return
InstanceValue == [db |-> instance.db, retriever |-> instance.retriever]

\* a call that is initialising: made is TRUE for the call that ran line 19
InitializingCall(count) ==
  [pc |-> "attempt", made |-> TRUE, retryCount |-> count,
   value |-> [db |-> FALSE, retriever |-> FALSE]]

\* instanceCalls with the call of caller c set to call
WithCall(c, call) ==
  [g \in DOMAIN instanceCalls \cup {c} |->
     IF g = c THEN call ELSE instanceCalls[g]]

\* getInstance up to its await or its return (lines 17-23): the caller that
\* finds no instance makes one and enters _initialize; every other caller
\* gets the instance as it is
GetInstanceBy(c) ==
  /\ c \notin DOMAIN instanceCalls
  /\ IF ~instance.created
     THEN /\ instance' = [instance EXCEPT !.created = TRUE]
          /\ instanceCalls' = WithCall(c, InitializingCall(0))
     ELSE /\ instanceCalls' = WithCall(c,
               [pc |-> "returned", made |-> FALSE, retryCount |-> 0,
                value |-> InstanceValue])
          /\ UNCHANGED instance
  /\ UNCHANGED <<startPc, retryCount, initLog, retriever,
                 conversationCollection, listening, auxVars, socketVars,
                 coreVars>>

\* one pass of the retry loop of the initialising call (lines 29-87): success
\* sets db and retriever and getInstance returns the instance (line 22); a
\* failure counts, and the last one is thrown to the caller
InitializeAttemptBy(c) ==
  /\ c \in DOMAIN instanceCalls
  /\ instanceCalls[c].pc = "attempt"
  /\ LET call == instanceCalls[c]
         count == call.retryCount + 1
     IN  \E ok \in BOOLEAN :
           IF ok
           THEN /\ instance' = [instance EXCEPT !.db = TRUE,
                                                !.retriever = TRUE]
                /\ instanceCalls' = WithCall(c,
                     [call EXCEPT !.pc = "returned",
                                  !.value = [db |-> TRUE,
                                             retriever |-> TRUE]])
           ELSE /\ instanceCalls' = WithCall(c,
                     [call EXCEPT
                        !.pc = IF AfterFailedAttempt(count) = "throw"
                               THEN "threw" ELSE "backoff",
                        !.retryCount = count])
                /\ UNCHANGED instance
  /\ UNCHANGED <<startPc, retryCount, initLog, retriever,
                 conversationCollection, listening, auxVars, socketVars,
                 coreVars>>

\* the 2000 ms timer of line 85 fires for the initialising call
BackoffBy(c) ==
  /\ c \in DOMAIN instanceCalls
  /\ instanceCalls[c].pc = "backoff"
  /\ instanceCalls' = WithCall(c, [instanceCalls[c] EXCEPT !.pc = "attempt"])
  /\ UNCHANGED <<startPc, retryCount, initLog, instance, retriever,
                 conversationCollection, listening, auxVars, socketVars,
                 coreVars>>

NextInstance ==
  \/ \E c \in Getters : GetInstanceBy(c)
  \/ \E c \in Getters : InitializeAttemptBy(c)
  \/ \E c \in Getters : BackoffBy(c)

SpecInstance == Init /\ [][NextInstance]_vars

(***************************************************************************)
(* Properties of getResponse and of the server.                            *)
(***************************************************************************)
\* the query handlers whose getResponse call is running or has just settled
Calls == {k \in Sockets : req[k].pc \notin {"idle", "logging", "finally"}}

\* the handlers whose getResponse call has not settled yet
Pending == {k \in Sockets : req[k].pc \in
              {"guard", "retrieve", "score", "contextualize",
               "chainRetrieve", "answer"}}

History(k) == chatHistoriesStore[req[k].sessionId]

Advisories == {DuplicateAdvisory, EmptyKnowledgeBase, LowConfidence}

\* a human message among the first n messages has similarity >= 0.85 with
\* the question
DuplicateAmong(messages, n, question) ==
  \E i \in 1 .. n :
    /\ messages[i].role = "human"
    /\ AtLeast(cosineSimilarity(embedQuery(question),
                                embedQuery(messages[i].content)).value,
               DuplicateThreshold, ThresholdScale)

\* some document scores >= 0.7 against the question
BestAtLeastThreshold(question, docs) ==
  \E i \in 1 .. Len(docs) :
    AtLeast(cosineSimilarity(embedQuery(question),
                             embedQuery(docs[i].pageContent)).value,
            confidenceThreshold, ThresholdScale)

InStages(r, name) == \E i \in 1 .. Len(r.stages) : r.stages[i] = name

\* C1: a call whose session history held, when the call began, a human
\* message with similarity >= 0.85 to the question makes no retrieval and no
\* model call and, when it returns, returns the duplicate advisory (it can
\* only end otherwise by a rejected embedding call, which is thrown); the
\* advisory is returned only for such a message; and a call that found no
\* such message among the messages its loop went through, and had no
\* embedding call rejected, went on to retrieval.
C1_DuplicateShortCircuit ==
  \A k \in Calls :
    LET r == req[k]
    IN  /\ DuplicateAmong(History(k), r.startLen, r.userQuestion) =>
             /\ r.retrievals = 0
             /\ r.llmCalls = 0
             /\ ~InStages(r, "retrieve")
             /\ r.outcome = "returned" => r.response = DuplicateAdvisory
             /\ r.outcome = "threw" => r.error = "EmbeddingProviderError"
        /\ (r.outcome = "returned" /\ r.response = DuplicateAdvisory) =>
             /\ DuplicateAmong(History(k), r.next, r.userQuestion)
             /\ r.retrievals = 0
             /\ r.llmCalls = 0
        /\ InStages(r, "retrieve") =>
             /\ r.next - 1 >= r.startLen
             /\ ~DuplicateAmong(History(k), r.next - 1, r.userQuestion)
        /\ (r.outcome # "none" /\ ~InStages(r, "retrieve")) =>
             \/ r.response = DuplicateAdvisory
             \/ r.error = "EmbeddingProviderError" /\ r.failures = 1

\* C1 witness: a call returned the advisory for a question that is similar
\* to, and not the same as, an earlier question of its session.
C1_Witness ==
  \E k \in Calls :
    /\ req[k].outcome = "returned"
    /\ req[k].response = DuplicateAdvisory
    /\ req[k].retrievals = 0
    /\ History(k)[req[k].next].content # req[k].userQuestion

\* C2: once the scores of a non-empty retrieved set are there, the call goes
\* on to the answerer exactly when the best score is >= 0.7; below that it
\* returns the low-confidence message and no model call is made.
C2_ConfidenceGate ==
  \A k \in Calls :
    LET r == req[k]
    IN  /\ r.confidenceScores # <<>> =>
             IF BestAtLeastThreshold(r.userQuestion, r.retrievedDocs)
             THEN /\ InStages(r, "answer")
                  /\ r.response \notin {LowConfidence, EmptyKnowledgeBase}
             ELSE /\ r.outcome = "returned"
                  /\ r.response = LowConfidence
                  /\ r.llmCalls = 0
                  /\ ~InStages(r, "answer")
        /\ (r.llmCalls > 0 \/ InStages(r, "answer")) =>
             /\ r.retrievedDocs # <<>>
             /\ BestAtLeastThreshold(r.userQuestion, r.retrievedDocs)
        /\ r.response = LowConfidence =>
             /\ r.confidenceScores # <<>>
             /\ ~BestAtLeastThreshold(r.userQuestion, r.retrievedDocs)

\* C2 witness: a best score of exactly 0.7 passed the gate and the model was
\* called.
C2_Witness ==
  \E k \in Calls :
    LET r == req[k]
        best == MathMax(r.confidenceScores)
    IN  /\ r.confidenceScores # <<>>
        /\ best.sgn = 1
        /\ best.num * ThresholdScale * ThresholdScale
             = confidenceThreshold * confidenceThreshold * best.den
        /\ r.llmCalls > 0

\* C3: a call whose retrieval gave no documents returns the empty
\* knowledge-base message at once, with no model call and nothing thrown,
\* and that message is returned for no other reason.
C3_EmptyKnowledgeBase ==
  \A k \in Calls :
    LET r == req[k]
    IN  /\ (InStages(r, "gate") /\ r.retrievedDocs = <<>>) =>
             /\ r.outcome = "returned"
             /\ r.response = EmptyKnowledgeBase
             /\ r.llmCalls = 0
             /\ r.failures = 0
             /\ ~InStages(r, "answer")
        /\ r.response = EmptyKnowledgeBase =>
             /\ InStages(r, "gate")
             /\ r.retrievedDocs = <<>>

\* C3 witness: the empty knowledge-base message was returned for a question
\* that got past the duplicate check of a non-empty history.
C3_Witness ==
  \E k \in Calls :
    /\ req[k].outcome = "returned"
    /\ req[k].response = EmptyKnowledgeBase
    /\ req[k].startLen > 0
    /\ req[k].retrievals = 1

\* a step in which the call of socket k returns a model-generated answer
ReturnsAnswer(k) ==
  /\ req[k].outcome = "none"
  /\ req'[k].outcome = "returned"
  /\ req'[k].response \notin Advisories

\* C4: the step in which a call returns a model-generated answer puts the
\* human question and then the answer at the end of its session's history
\* and changes no other history; no other step of a call changes the
\* messages of any session.
C4_AnswerAppendsTwo ==
  [][\A k \in Sockets :
       LET r == req[k]
       IN  /\ ReturnsAnswer(k) =>
                /\ chatHistoriesStore'[r.sessionId] =
                     chatHistoriesStore[r.sessionId]
                       \o <<HumanMessage(r.userQuestion),
                            AIMessage(req'[k].response)>>
                /\ \A s \in DOMAIN chatHistoriesStore \ {r.sessionId} :
                     chatHistoriesStore'[s] = chatHistoriesStore[s]
                /\ req'[k].appended = 2
           /\ (req'[k] # r /\ ~ReturnsAnswer(k)) =>
                /\ \A s \in DOMAIN chatHistoriesStore :
                     chatHistoriesStore'[s] = chatHistoriesStore[s]
                /\ req'[k].appended = 0 \/ req'[k].appended = r.appended
     ]_vars

\* C4 witness: an answer was returned in a session whose history already
\* held an earlier exchange, and the history is two messages longer.
C4_Witness ==
  \E k \in Calls :
    /\ req[k].outcome = "returned"
    /\ req[k].response = ModelAnswer(req[k].userQuestion)
    /\ req[k].startLen = 2
    /\ Len(History(k)) = 4
    /\ History(k)[3] = HumanMessage(req[k].userQuestion)
    /\ History(k)[4] = AIMessage(req[k].response)

\* C5: a rejected upstream call ends the call at once as a thrown error: the
\* step of the rejection issues no further upstream call and changes no
\* history, and the call has appended nothing.
C5_FailurePropagates ==
  /\ [](\A k \in Calls :
          req[k].failures > 0 =>
            /\ req[k].pc = "threw"
            /\ req[k].outcome = "threw"
            /\ req[k].error \in {"EmbeddingProviderError",
                                 "VectorSearchError", "ModelInvocationError"}
            /\ req[k].failures = 1
            /\ req[k].appended = 0)
  /\ [][\A k \in Sockets :
          req'[k].failures > req[k].failures =>
            /\ req'[k].pc = "threw"
            /\ req'[k].retrievals = req[k].retrievals
            /\ req'[k].llmCalls = req[k].llmCalls
            /\ chatHistoriesStore' = chatHistoriesStore
       ]_vars

\* C5 witness: the model call for the answer was rejected in a session with
\* an earlier exchange; the call threw and the history is as it was.
C5_Witness ==
  \E k \in Calls :
    /\ req[k].outcome = "threw"
    /\ req[k].error = "ModelInvocationError"
    /\ req[k].failures = 1
    /\ req[k].contextDocs # <<>>
    /\ req[k].startLen = 2
    /\ Len(History(k)) = 2

\* C6: every document handed to documentPrompt has a non-empty url.
C6_FormattedHaveUrl ==
  \A k \in Calls :
    \A i \in 1 .. Len(req[k].formatted) : req[k].formatted[i].url # NoUrl

\* C7: no two getResponse calls are pending for the same session id.
C7_OneRequestPerSession ==
  \A j \in Pending : \A k \in Pending :
    j # k => req[j].sessionId # req[k].sessionId

\* all attempts of _initialize failed and it has thrown
InitializeFailed ==
  /\ instance.created
  /\ ~instance.db
  /\ startPc \in {"listen", "running"}

\* C8: after the last initialisation attempt failed the server never listens
\* and no query is taken up.
C8_FatalStartup ==
  InitializeFailed =>
    /\ ~listening
    /\ \A k \in Sockets : req[k].pc = "idle"

IsZeroVector(v) == \A i \in 1 .. Len(v) : v[i] = 0

\* C9: cosineSimilarity throws the dimension error exactly when the lengths
\* differ; for equal lengths it returns a number, and that number is exactly
\* 0 when either vector has zero magnitude.
C9_DimensionMismatchAndZero ==
  cosResult # NotCalled =>
    /\ (Len(vectorA) # Len(vectorB)) =>
         /\ cosResult.threw
         /\ cosResult.error = "Vectors must have the same dimensions"
    /\ (Len(vectorA) = Len(vectorB)) =>
         /\ ~cosResult.threw
         /\ (IsZeroVector(vectorA) \/ IsZeroVector(vectorB)) =>
              cosResult.value = Zero

\* C9 witness: a call with equal lengths and one zero-magnitude vector, next
\* to a non-zero one, has returned.
C9_Witness ==
  /\ cosResult # NotCalled
  /\ Len(vectorA) = MaxDim /\ Len(vectorB) = MaxDim
  /\ IsZeroVector(vectorA) /\ ~IsZeroVector(vectorB)
  /\ cosResult = Returned(Zero)

\* C10: for equal-length vectors the two argument orders give the same number.
C10_Symmetric ==
  (/\ cosResult # NotCalled
   /\ cosSwapped # NotCalled
   /\ Len(vectorA) = Len(vectorB)) =>
     /\ ~cosResult.threw
     /\ cosResult = cosSwapped

\* C10 witness: both orders were computed for two different non-zero vectors
\* of different magnitude and gave a non-zero similarity.
C10_Witness ==
  /\ cosResult # NotCalled
  /\ cosSwapped # NotCalled
  /\ Len(vectorA) = Len(vectorB)
  /\ vectorA # vectorB
  /\ CosineLoop(vectorA, vectorB, Len(vectorA)).normA
       # CosineLoop(vectorA, vectorB, Len(vectorA)).normB
  /\ cosResult.value.sgn # 0
  /\ cosResult = cosSwapped

(***************************************************************************)
(* Properties of fixDocumentMetadata.                                      *)
(***************************************************************************)
HasUrl(doc) == doc.metadata.kind = "object" /\ doc.metadata.url # MissingUrl

\* the line begins with the marker, blanks before it not counted
BeginsWithReferenceUrl(line) ==
  TrimStart(line) # <<>> /\ Head(TrimStart(line)) = ReferenceUrl

\* what follows the marker at the beginning of the line
Remainder(line) == Trim(Tail(TrimStart(line)))

\* the first line that begins with the marker (0 if there is none)
FirstReferenceLine(lines) ==
  LET found == {i \in 1 .. Len(lines) : BeginsWithReferenceUrl(lines[i])}
  IN  IF found = {} THEN 0
      ELSE CHOOSE i \in found : \A j \in found : i <= j

\* C11: for a document without url, the first line that begins with
\* 'Reference URL:' is the one taken: its remainder, without the blanks
\* around it, becomes metadata.url (when there is a remainder) and the text
\* keeps all its other lines in their order; a document without url that has
\* no line beginning with the marker keeps its text as it is.
C11_ReferenceLineExtracted ==
  fixCall.called =>
    \A i \in 1 .. Len(fixCall.input) :
      LET before == fixCall.input[i]
          after == fixCall.returned[i]
          lines == Split(before.pageContent)
          urlLine == FirstReferenceLine(lines)
      IN  ~HasUrl(before) =>
            IF urlLine # 0
            THEN /\ Remainder(lines[urlLine]) # <<>> =>
                      after.metadata.url = Remainder(lines[urlLine])
                 /\ after.pageContent = Join(WithoutLine(lines, urlLine))
            ELSE after.pageContent = before.pageContent

\* a line that holds the marker and something else than blanks
HoldsUrlValue(line) ==
  /\ Includes(line, ReferenceUrl)
  /\ Trim(Replace(line, ReferenceUrl)) # <<>>

NoExtractableUrl(doc) ==
  \A j \in 1 .. Len(Split(doc.pageContent)) :
    ~HoldsUrlValue(Split(doc.pageContent)[j])

\* C20: the call returns the array it was given, as long as before and in
\* the same order (each document's text is its old text with at most one
\* line left out), and every document has a non-empty metadata.url: a
\* document that had a url is unchanged, and a document without url whose
\* text has no line with a value next to 'Reference URL:' has the default
\* url.
C20_EveryDocumentHasUrl ==
  fixCall.called =>
    /\ fixCall.returned = documents
    /\ Len(fixCall.returned) = Len(fixCall.input)
    /\ \A i \in 1 .. Len(fixCall.input) :
         LET before == fixCall.input[i]
             after == fixCall.returned[i]
             lines == Split(before.pageContent)
         IN  /\ after.metadata.kind = "object"
             /\ after.metadata.url # MissingUrl
             /\ HasUrl(before) => after = before
             /\ (~HasUrl(before) /\ NoExtractableUrl(before)) =>
                  after.metadata.url = DefaultUrl
             /\ \E j \in 0 .. Len(lines) :
                  after.pageContent = Join(WithoutLine(lines, j))

\* C20 witness: an array of a document that has a url, and a marker line in
\* its text, and a document without metadata and without marker was fixed.
C20_Witness ==
  /\ fixCall.called
  /\ Len(fixCall.input) = 2
  /\ HasUrl(fixCall.input[1])
  /\ Includes(fixCall.input[1].pageContent, ReferenceUrl)
  /\ fixCall.returned[1] = fixCall.input[1]
  /\ fixCall.input[2].metadata.kind = "undefined"
  /\ fixCall.input[2].pageContent # <<>>
  /\ ~Includes(fixCall.input[2].pageContent, ReferenceUrl)
  /\ fixCall.returned[2].metadata.url = DefaultUrl
  /\ fixCall.returned[2].pageContent = fixCall.input[2].pageContent

(***************************************************************************)
(* Properties of the express routes.                                       *)
(***************************************************************************)
\* C12: no more than RateLimitMax requests are served within one window of
\* the limiter.
C12_RateLimited == windowHits <= RateLimitMax

\* the request carries the export password that the configuration sets
ExportAuthorized(request) ==
  /\ FILE_PASSWORD.defined
  /\ request.password.defined
  /\ request.password = FILE_PASSWORD

\* C13: an export request that carries the configured export password is not
\* answered 403; every other export request is answered 403 Forbidden and
\* the conversation collection is not read for it; the conversations are
\* sent only to a request that carries the configured password.
C13_ExportNeedsPassword ==
  httpRequest.route = "/export_conversations" =>
    /\ IF ExportAuthorized(httpRequest)
       THEN httpRequest.status # 403
       ELSE /\ httpRequest.pc = "responded"
            /\ httpRequest.status = 403
            /\ ~httpRequest.readCollection
    /\ httpRequest.body = "conversations.csv" => ExportAuthorized(httpRequest)

(***************************************************************************)
(* Properties of the pipeline of getResponse and of the history store.     *)
(***************************************************************************)
Pipeline == <<"guard", "retrieve", "gate", "answer", "history">>

IsPrefix(s, t) == Len(s) <= Len(t) /\ SubSeq(t, 1, Len(s)) = s

LastStage(r) == r.stages[Len(r.stages)]

\* C14: the stages a call has entered are a beginning of guard, retrieve,
\* gate, answer, history, and the call is in the last one of them; what a
\* stage does (retrieving, scoring, calling the model, saving) is done only
\* once the stage was entered; a call that ended with the advisory, with an
\* empty or low-confidence message or with an error entered no stage after
\* the one that ended it, and a call that has ended enters no further stage.
C14_StagesInOrder ==
  /\ [](\A k \in Calls :
          LET r == req[k]
          IN  /\ r.stages # <<>>
              /\ IsPrefix(r.stages, Pipeline)
              /\ r.pc = "guard" => LastStage(r) = "guard"
              /\ r.pc = "retrieve" => LastStage(r) = "retrieve"
              /\ r.pc = "score" => LastStage(r) = "gate"
              /\ r.pc \in {"contextualize", "chainRetrieve", "answer"} =>
                   LastStage(r) = "answer"
              /\ r.retrievals > 0 => InStages(r, "retrieve")
              /\ (r.retrievedDocs # <<>> \/ r.confidenceScores # <<>>) =>
                   InStages(r, "gate")
              /\ (r.llmCalls > 0 \/ r.contextDocs # <<>>
                    \/ r.retrievals > 1) => InStages(r, "answer")
              /\ r.appended > 0 => InStages(r, "history")
              /\ r.response = DuplicateAdvisory => r.stages = <<"guard">>
              /\ r.response \in {EmptyKnowledgeBase, LowConfidence} =>
                   r.stages = <<"guard", "retrieve", "gate">>
              /\ r.outcome = "threw" => ~InStages(r, "history")
              /\ InStages(r, "history") =>
                   /\ r.outcome = "returned"
                   /\ r.response = ModelAnswer(r.userQuestion))
  /\ [][\A k \in Sockets :
          LET r == req[k]
          IN  /\ (r.pc # "idle" /\ req'[k].stages # <<>>) =>
                   /\ IsPrefix(r.stages, req'[k].stages)
                   /\ Len(req'[k].stages) <= Len(r.stages) + 1
              /\ (r.outcome # "none"
                    /\ [req'[k] EXCEPT !.rejected = r.rejected] # r) =>
                   req'[k].pc \in {"logging", "finally"}
       ]_vars

\* C14 witness: a call went through all five stages in a session whose
\* history the guard had to compare against.
C14_Witness ==
  \E k \in Calls :
    /\ req[k].stages = Pipeline
    /\ req[k].startLen = 2
    /\ req[k].next = 3
    /\ req[k].retrievals = 2
    /\ req[k].llmCalls = 2
    /\ req[k].appended = 2
    /\ req[k].outcome = "returned"

\* C15: the documents the chain formats into the model's context are the
\* documents the gate scored for the call.
C15_ContextIsScoredSet ==
  \A k \in Calls :
    (req[k].pc = "answer" \/ InStages(req[k], "history")) =>
      /\ req[k].contextDocs = req[k].retrievedDocs
      /\ req[k].formatted = req[k].retrievedDocs

\* every message list of the store is after the step what it was before it
\* (a session first referred to in the step has no messages)
MessagesUnchanged ==
  /\ DOMAIN chatHistoriesStore \subseteq DOMAIN chatHistoriesStore'
  /\ \A s \in DOMAIN chatHistoriesStore' :
       chatHistoriesStore'[s] =
         IF s \in DOMAIN chatHistoriesStore THEN chatHistoriesStore[s]
         ELSE <<>>

\* C16: a call that ends with the duplicate advisory, the empty
\* knowledge-base message or the low-confidence message has returned, not
\* thrown, and has appended nothing; the step that ends it, like every step
\* of a call outside the answerer, leaves the messages of every session as
\* they were; and no history ever holds one of the three texts.
C16_AdvisoryLeavesHistory ==
  /\ [](\A k \in Calls :
          LET r == req[k]
          IN  r.response \in Advisories =>
                /\ r.pc = "returned"
                /\ r.outcome = "returned"
                /\ r.error = "none"
                /\ r.failures = 0
                /\ r.appended = 0
                /\ Len(History(k)) >= r.startLen)
  /\ [](\A s \in DOMAIN chatHistoriesStore :
          \A i \in 1 .. Len(chatHistoriesStore[s]) :
            chatHistoriesStore[s][i].content \notin Advisories)
  /\ [][\A k \in Sockets :
          (req'[k] # req[k] /\ ~InStages(req'[k], "answer")) =>
            MessagesUnchanged
       ]_vars

\* C16 witness: the low-confidence message was returned in a session that
\* holds one earlier exchange and nothing else.
C16_Witness ==
  \E k \in Calls :
    /\ req[k].outcome = "returned"
    /\ req[k].response = LowConfidence
    /\ req[k].startLen = 2
    /\ Len(History(k)) = 2
    /\ \A i \in 1 .. 2 : History(k)[i].content # req[k].userQuestion

\* C17: no step removes a session from the history store, and every
\* session's message list after a step begins with its list before the step.
C17_HistoryAppendOnly ==
  [][\A s \in DOMAIN chatHistoriesStore :
       /\ s \in DOMAIN chatHistoriesStore'
       /\ IsPrefix(chatHistoriesStore[s], chatHistoriesStore'[s])
    ]_vars

\* C17 witness: the first socket of a session is gone, a second socket has
\* connected with the same session id, and the history holds the exchange
\* of the first followed by the exchange of the second.
C17_Witness ==
  /\ socketState[1] = "closed"
  /\ socketState[2] = "connected"
  /\ sessions[2].userSessionId = ClientSessionId
  /\ req[1].pc = "idle"
  /\ req[2].pc = "returned"
  /\ req[2].startLen = 2
  /\ Len(chatHistoriesStore[ClientSessionId]) = 4
  /\ DOMAIN chatHistoriesStore = {ClientSessionId}

(***************************************************************************)
(* Properties of ChromaDB._initialize.                                     *)
(***************************************************************************)
\* the attempts among the first n entries of initLog
AttemptsAmong(n) ==
  Cardinality({i \in 1 .. n : initLog[i].event \in {"succeeded", "failed"}})

\* _initialize has returned or thrown and startServer has not gone on yet
InitializeEnded == startPc = "listen" /\ initLog # <<>>

\* C18: _initialize makes at most maxRetries attempts; a successful attempt
\* is the last thing it does; it waits only right after a failed attempt
\* that was not the last allowed one, and the next thing after a wait is an
\* attempt; the failed attempt number maxRetries is followed at once by the
\* throw of that attempt's error, and nothing else is thrown and nothing
\* comes after the throw; and it ends only by a success or by that throw.
C18_BoundedRetries ==
  /\ AttemptsAmong(Len(initLog)) <= maxRetries
  /\ \A i \in 1 .. Len(initLog) :
       LET entry == initLog[i]
           last == i = Len(initLog)
       IN  /\ entry.event = "succeeded" => last
           /\ entry.event = "failed" =>
                /\ entry.error = AttemptsAmong(i)
                /\ IF entry.error < maxRetries
                   THEN /\ last => startPc = "backoff"
                        /\ ~last => initLog[i + 1] = Waited
                   ELSE /\ ~last
                        /\ initLog[i + 1] = Threw(entry.error)
           /\ entry.event = "waited" =>
                /\ i > 1
                /\ initLog[i - 1].event = "failed"
                /\ initLog[i - 1].error < maxRetries
                /\ last => startPc = "attempt"
                /\ ~last => initLog[i + 1].event \in {"succeeded", "failed"}
           /\ entry.event = "threw" =>
                /\ last
                /\ i > 1
                /\ initLog[i - 1] = FailedAttempt(maxRetries)
                /\ entry.error = maxRetries
  /\ InitializeEnded =>
       /\ initLog[Len(initLog)].event \in {"succeeded", "threw"}
       /\ initLog[Len(initLog)].event = "succeeded" <=> instance.db

\* C18 witness: three attempts failed with two waits between them, and the
\* third attempt's error was thrown.
C18_Witness ==
  /\ InitializeEnded
  /\ initLog = <<FailedAttempt(1), Waited, FailedAttempt(2), Waited,
                 FailedAttempt(3), Threw(3)>>
  /\ ~instance.db

(***************************************************************************)
(* Properties of the embedding cache.                                      *)
(***************************************************************************)
\* C19: a getCachedEmbedding call that has returned has returned the
\* embedding of its own text; every entry of the cache is the embedding of
\* its key; and as long as no call overlapped with another call or with a
\* clear, no text's embedding was computed twice since the last clear.
C19_CacheReturnsOwnVector ==
  /\ \A c \in Callers :
       cacheCalls[c].pc = "returned" =>
         cacheCalls[c].result = Vector(embedQuery(cacheCalls[c].text))
  /\ \A text \in CacheTexts :
       embeddingCache[text].defined =>
         embeddingCache[text] = Vector(embedQuery(text))
  /\ ~cacheUse.concurrent =>
       \A text \in CacheTexts : cacheUse.computed[text] <= 1

(***************************************************************************)
(* Properties of the 'query' handler of app.js.                            *)
(***************************************************************************)
\* this step handles a 'query' event that arrived on socket k
QueryEvent(k) == queries' = queries + 1 /\ req'[k] # req[k]

\* the step's only effect is one more 'Please wait' reply on socket k
OnlyRejects(k) ==
  /\ req' = [req EXCEPT ![k].rejected = @ + 1]
  /\ UNCHANGED <<sessions, socketState, unhandled, chatHistoriesStore,
                 currentModel, startVars>>

\* C21: a 'query' event that arrives on a socket whose requestInProgress flag
\* is set is answered with the 'Please wait for the current response.' error
\* and has no other effect: no getResponse call starts, the flag and every
\* session history stay as they are.  A 'query' event that arrives while a
\* handler run of the socket is under way finds the flag set, so a socket
\* never has two getResponse calls in flight.
C21_BusySocketRejects ==
  [][\A k \in Sockets :
       /\ QueryEvent(k) /\ sessions[k].requestInProgress => OnlyRejects(k)
       /\ QueryEvent(k) /\ req[k].pc # "idle" =>
            sessions[k].requestInProgress]_vars

\* C21 witness: a query was turned away on a socket whose getResponse call is
\* waiting for the model's answer; the call and the flag are still there.
C21_Witness ==
  \E k \in Sockets :
    /\ socketState[k] = "connected"
    /\ sessions[k].requestInProgress
    /\ req[k].rejected = 1
    /\ req[k].pc = "answer"
    /\ req[k].stages = <<"guard", "retrieve", "gate", "answer">>

\* C22: a handler run that has come to its end ended without an unhandled
\* exception, whatever the payload and whether or not a disconnect or a
\* clear_session came while it ran, and on a socket that is still connected
\* it has left requestInProgress false, so that the next query is accepted.
C22_HandlerReleasesSocket ==
  \A k \in Sockets :
    req[k].ended =>
      /\ ~unhandled[k]
      /\ socketState[k] = "connected" => ~sessions[k].requestInProgress

\* C23: the handler run of a 'query' event emits exactly one reply event,
\* 'answer' or 'error': never more than one while it runs, logging included,
\* and one by the time it has come to its end.  (A 'query' event that is
\* turned away gets its one 'error' in QueryRejected.)
C23_ExactlyOneReply ==
  \A k \in Sockets :
    /\ Len(req[k].emitted) <= 1
    /\ \A i \in 1 .. Len(req[k].emitted) :
         req[k].emitted[i] \in {"answer", "error"}
    /\ req[k].ended => Len(req[k].emitted) = 1

(***************************************************************************)
(* Properties of the ChromaDB singleton.                                   *)
(***************************************************************************)
\* the calls that ran `new ChromaDB()`
InstancesMade == {c \in DOMAIN instanceCalls : instanceCalls[c].made}

\* C24: getInstance makes at most one instance per process, and every
\* instance it returns to a caller has db and retriever set by then, also
\* when another call is still initialising it and when the initialisation
\* has run out of retries.
C24_SingletonInitialised ==
  /\ Cardinality(InstancesMade) <= 1
  /\ \A c \in DOMAIN instanceCalls :
       instanceCalls[c].pc = "returned" =>
         instanceCalls[c].value.db /\ instanceCalls[c].value.retriever
====
